---- MODULE Spec2Model ----
(***************************************************************************)
(* Model of the whatsapp-agent authentication core: SessionManager,        *)
(* AuthAgent (OTP flow), ExternalClientAPI and MessageRouter.              *)
(*                                                                         *)
(* Strings that the code inspects (message texts, phone identifiers,       *)
(* e-mail addresses) are sequences of symbols: a symbol is a whitespace    *)
(* character, the character "@", a single character of an e-mail local     *)
(* part, or a run of other characters.  Strings that the code only stores  *)
(* and echoes (client ids, display names) are TLA+ strings.                *)
(***************************************************************************)
EXTENDS Integers, Sequences, FiniteSets, TLC

VARIABLES sessions, last, via, wrong, live, web, mask, co, otp_store

vars == <<sessions, last, via, wrong, live, web, mask, co, otp_store>>

----------------------------------------------------------------------------
(* Bounds *)

MaxWrong == 2

(* Webhook requests in flight, and messages in one request's payload. *)
MaxRequests == 2

MaxBatch == 2

(* Characters in the local part of an e-mail address. *)
MaxLocal == 3

(* handle turns of one party, in flight or finished. *)
MaxTurns == 4

(* Advances of the clock of the OTP store. *)
MaxTicks == 3

----------------------------------------------------------------------------
(* auth_agent.py: session-state keys and status values *)

AUTH_STATUS_KEY == "auth_status"
AUTH_USER_KEY == "auth_user_name"
AUTH_EMAIL_KEY == "auth_user_email"
AUTH_CLIENT_ID_KEY == "auth_client_id"

STATUS_AWAITING_PHONE == "awaiting_phone"
STATUS_AWAITING_CLIENT_ID == "awaiting_client_id"
STATUS_AWAITING_OTP == "awaiting_otp"
STATUS_AUTHENTICATED == "authenticated"

----------------------------------------------------------------------------
(* Python dict and str primitives used by the code *)

EmptyDict == [k \in {} |-> ""]

DictGet(d, k, default) == IF k \in DOMAIN d THEN d[k] ELSE default

DictSet(d, k, v) == [x \in (DOMAIN d) \cup {k} |-> IF x = k THEN v ELSE d[x]]

DictPop(d, k) == [x \in (DOMAIN d) \ {k} |-> d[x]]

Whitespace == {" ", "\t", "\n"}

RECURSIVE LStrip(_)
LStrip(s) ==
    IF s # <<>> /\ Head(s) \in Whitespace THEN LStrip(Tail(s)) ELSE s

RECURSIVE RStrip(_)
RStrip(s) ==
    IF s # <<>> /\ s[Len(s)] \in Whitespace
    THEN RStrip(SubSeq(s, 1, Len(s) - 1))
    ELSE s

Strip(s) == RStrip(LStrip(s))

----------------------------------------------------------------------------
(* Inputs: parties, message texts, directory records, HTTP responses *)

Party == { <<"+15551234567">>, <<"+10000000000">> }

Texts == { <<" ", "123456", "\n">> }

ALICE == [client_id |-> "ACME-1001", name |-> "Alice Johnson",
          email |-> <<"a", "l", "i", "c", "e", "@", "example.com">>]
CAROL == [client_id |-> "GLX-2001", name |-> "Carol Davis",
          email |-> <<"c", "a", "r", "o", "l", "@", "example.com">>]

Records == {ALICE, CAROL}

NoRecord == [client_id |-> "", name |-> "", email |-> <<>>]


(* HTTP outcomes of the four endpoints.  kind = "HTTPError" is a transport *)
(* error raised by httpx; json = "invalid" is a 200 response whose body    *)
(* resp.json() cannot decode.                                              *)

HttpError == [kind |-> "HTTPError", status |-> 0, json |-> "ok"]

LookupResponses ==
    { [kind |-> "response", status |-> 200, json |-> "ok", body |-> r] : r \in Records }
    \cup { [kind |-> "response", status |-> 200, json |-> "invalid", body |-> NoRecord],
           [kind |-> "response", status |-> 404, json |-> "ok", body |-> NoRecord],
           [kind |-> "response", status |-> 500, json |-> "ok", body |-> NoRecord],
           HttpError @@ [body |-> NoRecord] }

FlagResponses(key) ==
    { [kind |-> "response", status |-> 200, json |-> "ok", body |-> DictSet(EmptyDict, key, b)] :
          b \in BOOLEAN }
    \cup { [kind |-> "response", status |-> 200, json |-> "ok", body |-> EmptyDict],
           [kind |-> "response", status |-> 200, json |-> "invalid", body |-> EmptyDict],
           [kind |-> "response", status |-> 404, json |-> "ok", body |-> EmptyDict],
           HttpError @@ [body |-> EmptyDict] }

SendResponses == FlagResponses("success")

VerifyResponses == FlagResponses("valid")

----------------------------------------------------------------------------
(* client_api.py: ExternalClientAPI.  Each method maps the HTTP outcome of *)
(* its request to a returned value, or lets an exception escape.           *)

(* The result of a call: returned value or raised exception, and the level *)
(* of the error record the method logged ("" when it logged none).         *)
Return(v) == [tag |-> "return", val |-> v, log |-> ""]

Raise(exc) == [tag |-> "raise", val |-> exc, log |-> ""]

Logged(result, level) == [result EXCEPT !.log = level]

Found(rec) == [found |-> TRUE, rec |-> rec]

None == [found |-> FALSE, rec |-> NoRecord]

ClientRecord(data) ==
    [client_id |-> data.client_id, name |-> data.name, email |-> data.email]

lookup_by_phone(resp) ==
    IF resp.kind = "HTTPError" THEN Logged(Return(None), "exception")
    ELSE IF resp.status = 200
         THEN IF resp.json = "invalid" THEN Raise("ValueError")
              ELSE Return(Found(ClientRecord(resp.body)))
    ELSE IF resp.status = 404 THEN Return(None)
    ELSE Logged(Return(None), "error")

lookup_by_client_id(resp) ==
    IF resp.kind = "HTTPError" THEN Logged(Return(None), "exception")
    ELSE IF resp.status = 200
         THEN IF resp.json = "invalid" THEN Raise("ValueError")
              ELSE Return(Found(ClientRecord(resp.body)))
    ELSE IF resp.status = 404 THEN Return(None)
    ELSE Logged(Return(None), "error")

send_otp(resp) ==
    IF resp.kind = "HTTPError" THEN Logged(Return(FALSE), "exception")
    ELSE IF resp.status = 200
         THEN IF resp.json = "invalid" THEN Raise("ValueError")
              ELSE Return(DictGet(resp.body, "success", FALSE))
    ELSE Logged(Return(FALSE), "error")

verify_otp(resp) ==
    IF resp.kind = "HTTPError" THEN Logged(Return(FALSE), "exception")
    ELSE IF resp.status = 200
         THEN IF resp.json = "invalid" THEN Raise("ValueError")
              ELSE Return(DictGet(resp.body, "valid", FALSE))
    ELSE Logged(Return(FALSE), "error")

Call(fn, args, ret) == [fn |-> fn, args |-> args, ret |-> ret]

----------------------------------------------------------------------------
(* base.py: AgentResponse.  reply_text is a template with its substituted  *)
(* display name and masked e-mail.                                         *)

AgentResponse(text, name, masked) == [text |-> text, name |-> name, masked |-> masked]

NoReply == AgentResponse("", "", <<>>)

T_ALREADY == "You are already verified as *{name}*. How can I help you today?"
T_ASK_CLIENT_ID == "I couldn't find an account linked to this phone number. Please provide your *Client ID* so I can look you up."
T_NOT_FOUND == "Sorry, I couldn't find an account with that Client ID. Please double-check and try again, or contact support for help."
T_UNABLE == "We found your account but were unable to send the verification code. Please try again later or contact support."
T_ACCOUNT_FOUND == "Account found: *{name}* A verification code has been sent to *{masked}*. Please enter the *6-digit OTP* to complete verification."
T_VERIFIED == "Verified! Welcome, *{name}*. You have been successfully authenticated."
T_INCORRECT == "That code is incorrect or has expired. Please try again with the correct *6-digit OTP*."
T_HELLO == "Hello, *{name}*! You are verified. Task-based features are coming soon. Type *logout* to end your session."

(* Outcome of one call: the session state it leaves, whether it returned   *)
(* or raised, its reply, and the external calls it made, in order.         *)
Turn(state, outcome, reply, calls) ==
    [state |-> state, outcome |-> outcome, reply |-> reply, calls |-> calls]

----------------------------------------------------------------------------
(* auth_agent.py: AuthAgent *)

RECURSIVE Split(_, _)
Split(s, sep) ==
    IF \A i \in 1..Len(s) : s[i] # sep THEN <<s>>
    ELSE LET i == CHOOSE i \in 1..Len(s) :
                      s[i] = sep /\ \A j \in 1..(i - 1) : s[j] # sep
         IN <<SubSeq(s, 1, i - 1)>> \o Split(SubSeq(s, i + 1, Len(s)), sep)

(* Mutant: the last character is shown from a local part of two           *)
(* characters on.                                                          *)
_mask_email_keep(email) ==
    LET parts == Split(email, "@") IN
    IF Len(parts) # 2 THEN Raise("ValueError")
    ELSE LET local == parts[1]
             domain == parts[2]
         IN IF Len(local) = 0 THEN Raise("IndexError")
            ELSE LET masked_local ==
                         IF Len(local) < 2
                         THEN <<local[1], "***">>
                         ELSE <<local[1], "***", local[Len(local)]>>
                 IN Return(masked_local \o <<"@">> \o domain)

_mask_email(email) ==
    LET parts == Split(email, "@") IN
    IF Len(parts) # 2 THEN Raise("ValueError")
    ELSE LET local == parts[1]
             domain == parts[2]
         IN IF Len(local) = 0 THEN Raise("IndexError")
            ELSE LET masked_local ==
                         IF Len(local) <= 2
                         THEN <<local[1], "***">>
                         ELSE <<local[1], "***", local[Len(local)]>>
                 IN Return(masked_local \o <<"@">> \o domain)

(* Mutant: the code is sent twice. *)
_initiate_otp_resend(client_id, name, email, session_state, prior, sendResp) ==
    LET s1 == DictSet(session_state, AUTH_CLIENT_ID_KEY, client_id)
        s2 == DictSet(s1, AUTH_USER_KEY, name)
        s3 == DictSet(s2, AUTH_EMAIL_KEY, email)
        otp_sent == send_otp(sendResp)
        calls == prior \o <<Call("send_otp", <<client_id>>, otp_sent),
                             Call("send_otp", <<client_id>>, otp_sent)>>
    IN IF otp_sent.tag = "raise" THEN Turn(s3, "raised", NoReply, calls)
       ELSE IF ~otp_sent.val
            THEN Turn(s3, "returned", AgentResponse(T_UNABLE, "", <<>>), calls)
       ELSE LET s4 == DictSet(s3, AUTH_STATUS_KEY, STATUS_AWAITING_OTP)
                masked == _mask_email(email)
            IN IF masked.tag = "raise" THEN Turn(s4, "raised", NoReply, calls)
               ELSE Turn(s4, "returned",
                         AgentResponse(T_ACCOUNT_FOUND, name, masked.val), calls)

(* Mutant: the display name is not stored. *)
_initiate_otp_anon(client_id, name, email, session_state, prior, sendResp) ==
    LET s1 == DictSet(session_state, AUTH_CLIENT_ID_KEY, client_id)
        s3 == DictSet(s1, AUTH_EMAIL_KEY, email)
        otp_sent == send_otp(sendResp)
        calls == Append(prior, Call("send_otp", <<client_id>>, otp_sent))
    IN IF otp_sent.tag = "raise" THEN Turn(s3, "raised", NoReply, calls)
       ELSE IF ~otp_sent.val
            THEN Turn(s3, "returned", AgentResponse(T_UNABLE, "", <<>>), calls)
       ELSE LET s4 == DictSet(s3, AUTH_STATUS_KEY, STATUS_AWAITING_OTP)
                masked == _mask_email(email)
            IN IF masked.tag = "raise" THEN Turn(s4, "raised", NoReply, calls)
               ELSE Turn(s4, "returned",
                         AgentResponse(T_ACCOUNT_FOUND, name, masked.val), calls)

(* Mutant: awaiting_otp is written before send_otp is awaited. *)
_initiate_otp_early(client_id, name, email, session_state, prior, sendResp) ==
    LET s1 == DictSet(session_state, AUTH_CLIENT_ID_KEY, client_id)
        s2 == DictSet(s1, AUTH_USER_KEY, name)
        s3 == DictSet(s2, AUTH_EMAIL_KEY, email)
        s4 == DictSet(s3, AUTH_STATUS_KEY, STATUS_AWAITING_OTP)
        otp_sent == send_otp(sendResp)
        calls == Append(prior, Call("send_otp", <<client_id>>, otp_sent))
    IN IF otp_sent.tag = "raise" THEN Turn(s4, "raised", NoReply, calls)
       ELSE IF ~otp_sent.val
            THEN Turn(s4, "returned", AgentResponse(T_UNABLE, "", <<>>), calls)
       ELSE LET masked == _mask_email(email)
            IN IF masked.tag = "raise" THEN Turn(s4, "raised", NoReply, calls)
               ELSE Turn(s4, "returned",
                         AgentResponse(T_ACCOUNT_FOUND, name, masked.val), calls)

_initiate_otp(client_id, name, email, session_state, prior, sendResp) ==
    LET s1 == DictSet(session_state, AUTH_CLIENT_ID_KEY, client_id)
        s2 == DictSet(s1, AUTH_USER_KEY, name)
        s3 == DictSet(s2, AUTH_EMAIL_KEY, email)
        otp_sent == send_otp(sendResp)
        calls == Append(prior, Call("send_otp", <<client_id>>, otp_sent))
    IN IF otp_sent.tag = "raise" THEN Turn(s3, "raised", NoReply, calls)
       ELSE IF ~otp_sent.val
            THEN Turn(s3, "returned", AgentResponse(T_UNABLE, "", <<>>), calls)
       ELSE LET s4 == DictSet(s3, AUTH_STATUS_KEY, STATUS_AWAITING_OTP)
                masked == _mask_email(email)
            IN IF masked.tag = "raise" THEN Turn(s4, "raised", NoReply, calls)
               ELSE Turn(s4, "returned",
                         AgentResponse(T_ACCOUNT_FOUND, name, masked.val), calls)

(* Mutant: a phone match is trusted without a one-time code. *)
_handle_phone_trust(phone, session_state, lookupResp, sendResp) ==
    LET record == lookup_by_phone(lookupResp)
        calls == <<Call("lookup_by_phone", <<phone>>, record)>>
    IN IF record.tag = "raise" THEN Turn(session_state, "raised", NoReply, calls)
       ELSE IF record.val.found
            THEN Turn(DictSet(DictSet(session_state, AUTH_USER_KEY, record.val.rec.name),
                              AUTH_STATUS_KEY, STATUS_AUTHENTICATED),
                      "returned", AgentResponse(T_VERIFIED, record.val.rec.name, <<>>), calls)
       ELSE Turn(DictSet(session_state, AUTH_STATUS_KEY, STATUS_AWAITING_CLIENT_ID),
                 "returned", AgentResponse(T_ASK_CLIENT_ID, "", <<>>), calls)

(* Mutant: a phone miss does not move the session to awaiting_client_id. *)
_handle_phone_stuck(phone, session_state, lookupResp, sendResp) ==
    LET record == lookup_by_phone(lookupResp)
        calls == <<Call("lookup_by_phone", <<phone>>, record)>>
    IN IF record.tag = "raise" THEN Turn(session_state, "raised", NoReply, calls)
       ELSE IF record.val.found
            THEN _initiate_otp(record.val.rec.client_id, record.val.rec.name,
                               record.val.rec.email, session_state, calls, sendResp)
       ELSE Turn(session_state, "returned", AgentResponse(T_ASK_CLIENT_ID, "", <<>>), calls)

_handle_phone(phone, session_state, lookupResp, sendResp) ==
    LET record == lookup_by_phone(lookupResp)
        calls == <<Call("lookup_by_phone", <<phone>>, record)>>
    IN IF record.tag = "raise" THEN Turn(session_state, "raised", NoReply, calls)
       ELSE IF record.val.found
            THEN _initiate_otp(record.val.rec.client_id, record.val.rec.name,
                               record.val.rec.email, session_state, calls, sendResp)
       ELSE Turn(DictSet(session_state, AUTH_STATUS_KEY, STATUS_AWAITING_CLIENT_ID),
                 "returned", AgentResponse(T_ASK_CLIENT_ID, "", <<>>), calls)

(* Mutant: a client-code miss sends the party back to phone entry. *)
_handle_client_id_reset(client_code, session_state, lookupResp, sendResp) ==
    LET record == lookup_by_client_id(lookupResp)
        calls == <<Call("lookup_by_client_id", <<client_code>>, record)>>
    IN IF record.tag = "raise" THEN Turn(session_state, "raised", NoReply, calls)
       ELSE IF ~record.val.found
            THEN Turn(DictSet(session_state, AUTH_STATUS_KEY, STATUS_AWAITING_PHONE),
                      "returned", AgentResponse(T_NOT_FOUND, "", <<>>), calls)
       ELSE _initiate_otp(record.val.rec.client_id, record.val.rec.name,
                          record.val.rec.email, session_state, calls, sendResp)

(* Mutant: a client-code miss still asks for a one-time code. *)
_handle_client_id_skip(client_code, session_state, lookupResp, sendResp) ==
    LET record == lookup_by_client_id(lookupResp)
        calls == <<Call("lookup_by_client_id", <<client_code>>, record)>>
    IN IF record.tag = "raise" THEN Turn(session_state, "raised", NoReply, calls)
       ELSE IF ~record.val.found
            THEN Turn(DictSet(session_state, AUTH_STATUS_KEY, STATUS_AWAITING_OTP),
                      "returned", AgentResponse(T_NOT_FOUND, "", <<>>), calls)
       ELSE _initiate_otp(record.val.rec.client_id, record.val.rec.name,
                          record.val.rec.email, session_state, calls, sendResp)

_handle_client_id(client_code, session_state, lookupResp, sendResp) ==
    LET record == lookup_by_client_id(lookupResp)
        calls == <<Call("lookup_by_client_id", <<client_code>>, record)>>
    IN IF record.tag = "raise" THEN Turn(session_state, "raised", NoReply, calls)
       ELSE IF ~record.val.found
            THEN Turn(session_state, "returned",
                      AgentResponse(T_NOT_FOUND, "", <<>>), calls)
       ELSE _initiate_otp(record.val.rec.client_id, record.val.rec.name,
                          record.val.rec.email, session_state, calls, sendResp)

(* Mutant: a wrong code is counted in the session state. *)
_handle_otp_count(otp, session_state, verifyResp) ==
    LET client_id == DictGet(session_state, AUTH_CLIENT_ID_KEY, "")
        name == DictGet(session_state, AUTH_USER_KEY, "")
        is_valid == verify_otp(verifyResp)
        calls == <<Call("verify_otp", <<client_id, otp>>, is_valid)>>
    IN IF is_valid.tag = "raise" THEN Turn(session_state, "raised", NoReply, calls)
       ELSE IF is_valid.val
            THEN Turn(DictSet(session_state, AUTH_STATUS_KEY, STATUS_AUTHENTICATED),
                      "returned", AgentResponse(T_VERIFIED, name, <<>>), calls)
       ELSE Turn(DictSet(session_state, "otp_attempts", "1"), "returned",
                 AgentResponse(T_INCORRECT, "", <<>>), calls)

(* Mutant: a wrong code sends the party back to client-code entry. *)
_handle_otp_restart(otp, session_state, verifyResp) ==
    LET client_id == DictGet(session_state, AUTH_CLIENT_ID_KEY, "")
        name == DictGet(session_state, AUTH_USER_KEY, "")
        is_valid == verify_otp(verifyResp)
        calls == <<Call("verify_otp", <<client_id, otp>>, is_valid)>>
    IN IF is_valid.tag = "raise" THEN Turn(session_state, "raised", NoReply, calls)
       ELSE IF is_valid.val
            THEN Turn(DictSet(session_state, AUTH_STATUS_KEY, STATUS_AUTHENTICATED),
                      "returned", AgentResponse(T_VERIFIED, name, <<>>), calls)
       ELSE Turn(DictSet(session_state, AUTH_STATUS_KEY, STATUS_AWAITING_CLIENT_ID),
                 "returned", AgentResponse(T_INCORRECT, "", <<>>), calls)

(* Mutant: a valid code is acknowledged but auth_status is not written. *)
_handle_otp_noauth(otp, session_state, verifyResp) ==
    LET client_id == DictGet(session_state, AUTH_CLIENT_ID_KEY, "")
        name == DictGet(session_state, AUTH_USER_KEY, "")
        is_valid == verify_otp(verifyResp)
        calls == <<Call("verify_otp", <<client_id, otp>>, is_valid)>>
    IN IF is_valid.tag = "raise" THEN Turn(session_state, "raised", NoReply, calls)
       ELSE IF is_valid.val
            THEN Turn(session_state, "returned", AgentResponse(T_VERIFIED, name, <<>>), calls)
       ELSE Turn(session_state, "returned",
                 AgentResponse(T_INCORRECT, "", <<>>), calls)

(* Mutant: a wrong code sends the party back to client-code entry. *)
_handle_otp_lockout(otp, session_state, verifyResp) ==
    LET client_id == DictGet(session_state, AUTH_CLIENT_ID_KEY, "")
        name == DictGet(session_state, AUTH_USER_KEY, "")
        is_valid == verify_otp(verifyResp)
        calls == <<Call("verify_otp", <<client_id, otp>>, is_valid)>>
    IN IF is_valid.tag = "raise" THEN Turn(session_state, "raised", NoReply, calls)
       ELSE IF is_valid.val
            THEN Turn(DictSet(session_state, AUTH_STATUS_KEY, STATUS_AUTHENTICATED),
                      "returned", AgentResponse(T_VERIFIED, name, <<>>), calls)
       ELSE Turn(DictSet(session_state, AUTH_STATUS_KEY, STATUS_AWAITING_CLIENT_ID),
                 "returned", AgentResponse(T_INCORRECT, "", <<>>), calls)

_handle_otp(otp, session_state, verifyResp) ==
    LET client_id == DictGet(session_state, AUTH_CLIENT_ID_KEY, "")
        name == DictGet(session_state, AUTH_USER_KEY, "")
        is_valid == verify_otp(verifyResp)
        calls == <<Call("verify_otp", <<client_id, otp>>, is_valid)>>
    IN IF is_valid.tag = "raise" THEN Turn(session_state, "raised", NoReply, calls)
       ELSE IF is_valid.val
            THEN Turn(DictSet(session_state, AUTH_STATUS_KEY, STATUS_AUTHENTICATED),
                      "returned", AgentResponse(T_VERIFIED, name, <<>>), calls)
       ELSE Turn(session_state, "returned",
                 AgentResponse(T_INCORRECT, "", <<>>), calls)

(* Mutant: the authenticated branch is missing, so the turn looks the      *)
(* party up again.                                                         *)
handle_relookup(message, session_state, r1, r2) ==
    LET status == DictGet(session_state, AUTH_STATUS_KEY, STATUS_AWAITING_PHONE) IN
    IF status = STATUS_AWAITING_OTP
    THEN _handle_otp(Strip(message), session_state, r1)
    ELSE IF status = STATUS_AWAITING_CLIENT_ID
         THEN _handle_client_id(Strip(message), session_state, r1, r2)
    ELSE _handle_phone(Strip(message), session_state, r1, r2)

(* handle(message, session_state): r1 is the HTTP outcome of the first     *)
(* external request of the turn, r2 of the second.                         *)
handle(message, session_state, r1, r2) ==
    LET status == DictGet(session_state, AUTH_STATUS_KEY, STATUS_AWAITING_PHONE) IN
    IF status = STATUS_AUTHENTICATED
    THEN IF AUTH_USER_KEY \in DOMAIN session_state
         THEN Turn(session_state, "returned",
                   AgentResponse(T_ALREADY, session_state[AUTH_USER_KEY], <<>>), <<>>)
         ELSE Turn(session_state, "raised", NoReply, <<>>)
    ELSE IF status = STATUS_AWAITING_OTP
         THEN _handle_otp(Strip(message), session_state, r1)
    ELSE IF status = STATUS_AWAITING_CLIENT_ID
         THEN _handle_client_id(Strip(message), session_state, r1, r2)
    ELSE _handle_phone(Strip(message), session_state, r1, r2)

(* The HTTP outcomes the first request of a handle turn can have. *)
FirstResponses(session_state) ==
    IF DictGet(session_state, AUTH_STATUS_KEY, STATUS_AWAITING_PHONE) = STATUS_AWAITING_OTP
    THEN VerifyResponses
    ELSE LookupResponses

(* AuthAgent.__init__(self, client_api): binding of a call's keyword       *)
(* arguments to the constructor's parameters.                              *)
AuthAgentParams == {"client_api"}

AuthAgentInit(kwargs) ==
    IF kwargs = AuthAgentParams THEN Return("AuthAgent") ELSE Raise("TypeError")

----------------------------------------------------------------------------
(* session_manager.py: Session and SessionManager *)

Session(user_phone) == [user_phone |-> user_phone, state |-> EmptyDict]

is_authenticated(session) ==
    DictGet(session.state, "auth_status", "None") = "authenticated"

(* Mutant: get stores a new session on every call. *)
get_fresh(store, phone) ==
    LET store1 == DictSet(store, phone, Session(phone))
    IN [store |-> store1, session |-> store1[phone]]

(* Mutant: get returns a new session without storing it. *)
get_unstored(store, phone) ==
    [store |-> store,
     session |-> IF phone \in DOMAIN store THEN store[phone] ELSE Session(phone)]

(* Mutant: get keeps only the requested session in the store. *)
get_evict(store, phone) ==
    LET session == IF phone \in DOMAIN store THEN store[phone] ELSE Session(phone)
    IN [store |-> DictSet([q \in {} |-> session], phone, session),
        session |-> session]

(* get(phone): the store after the call and the session it returns. *)
get(store, phone) ==
    LET store1 == IF phone \notin DOMAIN store
                  THEN DictSet(store, phone, Session(phone))
                  ELSE store
    IN [store |-> store1, session |-> store1[phone]]

(* Mutant: clear empties the store. *)
clear_all(store, phone) == [q \in {} |-> store[q]]

clear(store, phone) == DictPop(store, phone)

(* Mutant: only authenticated sessions are counted. *)
active_count_authenticated(store) ==
    Cardinality({p \in DOMAIN store : is_authenticated(store[p])})

active_count(store) == Cardinality(DOMAIN store)

----------------------------------------------------------------------------
(* message_router.py: MessageRouter.route.  The result carries the store   *)
(* after the call, the outcome, and what was passed to AuthAgent.handle    *)
(* (handled = FALSE when handle was not invoked).                          *)

NoInput == <<>>

Routed(store, turn, handled, input) ==
    [store |-> store, turn |-> turn, handled |-> handled, input |-> input]

RouteKwargs == {"db_session", "email_service"}

(* Mutant: route marks a first-contact session before dispatching. *)
route_seed(store, phone, message, r1, r2) ==
    LET g == get(store, phone)
        session == g.session
        seeded == IF "auth_status" \notin DOMAIN session.state
                  THEN DictSet(session.state, "auth_status", "awaiting_client_id")
                  ELSE session.state
    IN IF ~is_authenticated(session)
       THEN Routed([g.store EXCEPT ![phone].state = seeded],
                   Turn(seeded, "raised", NoReply, <<>>), FALSE, NoInput)
       ELSE Routed(g.store,
                   Turn(session.state, "returned",
                        AgentResponse(T_HELLO,
                                      DictGet(session.state, "auth_user_name", "there"),
                                      <<>>),
                        <<>>),
                   FALSE, NoInput)

route(store, phone, message, r1, r2) ==
    LET g == get(store, phone)
        session == g.session
    IN IF ~is_authenticated(session)
       THEN LET agent == AuthAgentInit(RouteKwargs)
            IN IF agent.tag = "raise"
               THEN Routed(g.store, Turn(session.state, "raised", NoReply, <<>>),
                           FALSE, NoInput)
               ELSE LET input == IF "auth_status" \notin DOMAIN session.state
                                 THEN phone
                                 ELSE message
                        t == handle(input, session.state, r1, r2)
                    IN Routed([g.store EXCEPT ![phone].state = t.state], t, TRUE, input)
       ELSE Routed(g.store,
                   Turn(session.state, "returned",
                        AgentResponse(T_HELLO,
                                      DictGet(session.state, "auth_user_name", "there"),
                                      <<>>),
                        <<>>),
                   FALSE, NoInput)

----------------------------------------------------------------------------
(* webhook/handler.py: receive_message.  A message of the payload is its   *)
(* sender ("from") and its text body; <<>> is an absent or empty field.    *)

T_LOGOUT == "You have been logged out. Send any message to start again."

LogoutText == <<" ", "LogOut", "\n">>

WebTexts == Texts \cup {LogoutText, <<>>}

Message(sender_phone, text_body) == [sender |-> sender_phone, text |-> text_body]

LowerSym(c) == IF c \in {"LOGOUT", "LogOut", "Logout"} THEN "logout" ELSE c

Lower(s) == [i \in DOMAIN s |-> LowerSym(s[i])]

(* One iteration of the loop over the payload's messages: what it did      *)
(* ("skip", "clear" or "route"), and the store, outcome and reply it       *)
(* leaves.                                                                 *)
Received(kind, routed) == [kind |-> kind, r |-> routed]

receive_one(store, msg, r1, r2) ==
    IF msg.sender = <<>> \/ msg.text = <<>>
    THEN Received("skip",
                  Routed(store, Turn(EmptyDict, "returned", NoReply, <<>>), FALSE, NoInput))
    ELSE IF Lower(Strip(msg.text)) = <<"logout">>
         THEN Received("clear",
                       Routed(clear(store, msg.sender),
                              Turn(EmptyDict, "returned",
                                   AgentResponse(T_LOGOUT, "", <<>>), <<>>),
                              FALSE, NoInput))
    ELSE Received("route", route(store, msg.sender, msg.text, r1, r2))

----------------------------------------------------------------------------
(* Observation of the last operation and of each session's history.        *)
(*   last   the last operation: its party and message, the session state   *)
(*          before it, its outcome, reply and external calls               *)
(*   via    per party, the lookup of the current session that last         *)
(*          returned a record ("none" when no lookup has)                  *)
(*   wrong  per party, the number of consecutive turns of the current      *)
(*          session in which verify_otp returned false (up to MaxWrong)    *)
(*   live   the parties for which get has been called and clear has not    *)
(*          been called since                                              *)

StatusOf(state) == DictGet(state, AUTH_STATUS_KEY, "absent")

Observed(op, party, message, store, turn, handled, input) ==
    [op |-> op, party |-> party, message |-> message,
     preExists |-> party \in DOMAIN store,
     pre |-> IF party \in DOMAIN store THEN store[party].state ELSE EmptyDict,
     outcome |-> turn.outcome, reply |-> turn.reply, calls |-> turn.calls,
     handled |-> handled, input |-> input]

Called(calls, fn) == \E i \in 1..Len(calls) : calls[i].fn = fn

Returned(calls, fn, v) ==
    \E i \in 1..Len(calls) :
        calls[i].fn = fn /\ calls[i].ret.tag = "return" /\ calls[i].ret.val = v

IsLookup(fn) == fn \in {"lookup_by_phone", "lookup_by_client_id"}

LookupFound(calls) ==
    \E i \in 1..Len(calls) :
        IsLookup(calls[i].fn) /\ calls[i].ret.tag = "return" /\ calls[i].ret.val.found

AfterHandle(p, turn) ==
    /\ via' = [via EXCEPT ![p] =
                  IF LookupFound(turn.calls) THEN turn.calls[1].fn ELSE @]
    /\ wrong' = [wrong EXCEPT ![p] =
                    IF Returned(turn.calls, "verify_otp", FALSE)
                    THEN (IF @ < MaxWrong THEN @ + 1 ELSE @)
                    ELSE IF Called(turn.calls, "verify_otp") /\ turn.outcome = "raised"
                         THEN 0
                    ELSE @]

----------------------------------------------------------------------------
(* Operations *)

(* The HTTP outcomes the second request of a handle turn can have: the     *)
(* turn makes one only after a lookup that returned a record.              *)
SecondResponses(session_state, r1) ==
    IF /\ StatusOf(session_state) \notin {STATUS_AWAITING_OTP, STATUS_AUTHENTICATED}
       /\ r1.kind = "response" /\ r1.status = 200 /\ r1.json = "ok"
    THEN SendResponses
    ELSE {HttpError @@ [body |-> EmptyDict]}

(* route makes requests only through an agent it could construct. *)
RouteResponses(S) ==
    IF AuthAgentInit(RouteKwargs).tag = "return" THEN S ELSE {CHOOSE r \in S : TRUE}

(* The parts of the state that belong to the other specifications, at     *)
(* rest: no e-mail being masked, no handle turn in flight, an empty OTP    *)
(* store.                                                                  *)
Pending == [tag |-> "none", val |-> <<>>, log |-> ""]

NoMask == [email |-> <<>>, masked |-> Pending]

NoTurns == <<>>

NoOtp == [entries |-> [c \in {} |-> <<>>], now |-> 0, ticks |-> 0]

Init ==
    /\ sessions = [p \in {} |-> Session(p)]
    /\ last = Observed("init", <<>>, <<>>, [p \in {} |-> Session(p)],
                       Turn(EmptyDict, "returned", NoReply, <<>>), FALSE, NoInput)
    /\ via = [p \in Party |-> "none"]
    /\ wrong = [p \in Party |-> 0]
    /\ live = {}
    /\ web = [token_set |-> FALSE, requests |-> <<>>]
    /\ mask = NoMask
    /\ co = NoTurns
    /\ otp_store = NoOtp

(* SessionManager.get(phone) *)
SessionGet(p) ==
    /\ sessions' = get(sessions, p).store
    /\ last' = Observed("get", p, <<>>, sessions,
                        Turn(get(sessions, p).session.state, "returned", NoReply, <<>>),
                        FALSE, NoInput)
    /\ live' = live \cup {p}
    /\ UNCHANGED <<via, wrong, web, mask, co, otp_store>>

(* SessionManager.clear(phone) *)
SessionClear(p) ==
    /\ sessions' = clear(sessions, p)
    /\ last' = Observed("clear", p, <<>>, sessions,
                        Turn(EmptyDict, "returned", NoReply, <<>>), FALSE, NoInput)
    /\ via' = [via EXCEPT ![p] = "none"]
    /\ wrong' = [wrong EXCEPT ![p] = 0]
    /\ live' = live \ {p}
    /\ UNCHANGED <<web, mask, co, otp_store>>

(* AuthAgent(client_api=api).handle(message, session.state) on the state   *)
(* of a stored session.                                                    *)
Handle(p, message) ==
    /\ p \in DOMAIN sessions
    /\ AuthAgentInit({"client_api"}).tag = "return"
    /\ \E r1 \in FirstResponses(sessions[p].state) :
       \E r2 \in SecondResponses(sessions[p].state, r1) :
          LET t == handle(message, sessions[p].state, r1, r2) IN
          /\ sessions' = [sessions EXCEPT ![p].state = t.state]
          /\ last' = Observed("handle", p, message, sessions, t, TRUE, message)
          /\ AfterHandle(p, t)
          /\ UNCHANGED <<live, web, mask, co, otp_store>>

(* MessageRouter.route(phone, message, db_session) *)
Route(p, message) ==
    LET state == get(sessions, p).session.state IN
    \E r1 \in RouteResponses(FirstResponses(state)) :
    \E r2 \in RouteResponses(SecondResponses(state, r1)) :
          LET r == route(sessions, p, message, r1, r2) IN
          /\ sessions' = r.store
          /\ last' = Observed("route", p, message, sessions, r.turn, r.handled, r.input)
          /\ IF r.handled
             THEN AfterHandle(p, r.turn)
             ELSE UNCHANGED <<via, wrong>>
          /\ live' = live \cup {p}
          /\ UNCHANGED <<web, mask, co, otp_store>>

(* receive_message(request) for a payload of one message, run to its end. *)
Receive(sender, text) ==
    LET state == IF sender \in Party THEN get(sessions, sender).session.state
                 ELSE EmptyDict
    IN
    \E r1 \in RouteResponses(FirstResponses(state)) :
    \E r2 \in RouteResponses(SecondResponses(state, r1)) :
          LET x == receive_one(sessions, Message(sender, text), r1, r2) IN
          /\ sessions' = x.r.store
          /\ last' = Observed(x.kind, sender, text, sessions, x.r.turn,
                              x.r.handled, x.r.input)
          /\ IF x.kind = "clear"
             THEN /\ via' = [via EXCEPT ![sender] = "none"]
                  /\ wrong' = [wrong EXCEPT ![sender] = 0]
             ELSE IF x.r.handled
                  THEN AfterHandle(sender, x.r.turn)
             ELSE UNCHANGED <<via, wrong>>
          /\ live' = IF x.kind = "clear" THEN live \ {sender}
                     ELSE IF x.kind = "route" THEN live \cup {sender}
                     ELSE live
          /\ UNCHANGED <<web, mask, co, otp_store>>

Next ==
    \/ \E p \in Party :
          \/ SessionGet(p)
          \/ SessionClear(p)
          \/ \E message \in Texts \cup {p} : Handle(p, message)
          \/ \E message \in Texts : Route(p, message)
    \/ \E sender \in Party \cup {<<>>}, text \in WebTexts : Receive(sender, text)

Spec == Init /\ [][Next]_vars

----------------------------------------------------------------------------
(* Concurrent webhook requests.  Each POST /webhook runs receive_message   *)
(* as a task of one event loop: a task runs alone until it reaches an      *)
(* await that suspends it, and another task runs meanwhile.  Requests are  *)
(* numbered in the order their payloads arrive.  web.token_set is the      *)
(* configuration settings.whatsapp_api_token being non-empty: only then    *)
(* does _send_whatsapp_reply make a request and suspend the task.          *)

WebMessages ==
    {Message(p, text) : p \in Party, text \in Texts \cup {LogoutText}}
    \cup {Message(<<>>, text) : text \in Texts}

Payloads == UNION {[1..n -> WebMessages] : n \in 1..MaxBatch}

(* The request made no progress past the message at pos: it is suspended   *)
(* at an await after that message ("commit", "send"), it ended by an       *)
(* exception raised for that message ("failed"), or it returned ("done").  *)
Task(payload, status, pos) == [payload |-> payload, status |-> status, pos |-> pos]

(* The responses route is given: it makes no request when it cannot        *)
(* construct the agent.                                                    *)
WebResponse(state, S) == CHOOSE r \in RouteResponses(S) : TRUE

(* The loop of receive_message from message pos on, up to the next await   *)
(* that suspends: the store it leaves and the task's new position.         *)
RECURSIVE run_loop(_, _, _, _)
run_loop(store, payload, pos, token_set) ==
    IF pos > Len(payload)
    THEN [store |-> store, task |-> Task(payload, "done", Len(payload))]
    ELSE LET sender == payload[pos].sender
             state == IF sender \in DOMAIN store THEN store[sender].state
                      ELSE EmptyDict
             r1 == WebResponse(state, FirstResponses(state))
             r2 == WebResponse(state, SecondResponses(state, r1))
             x == receive_one(store, payload[pos], r1, r2)
         IN IF x.kind = "skip"
            THEN run_loop(x.r.store, payload, pos + 1, token_set)
            ELSE IF x.kind = "clear"
                 THEN IF token_set
                      THEN [store |-> x.r.store, task |-> Task(payload, "send", pos)]
                      ELSE run_loop(x.r.store, payload, pos + 1, token_set)
            ELSE IF x.r.turn.outcome = "raised"
                 THEN [store |-> x.r.store, task |-> Task(payload, "failed", pos)]
            ELSE [store |-> x.r.store, task |-> Task(payload, "commit", pos)]

InitWebhook ==
    /\ sessions = [p \in {} |-> Session(p)]
    /\ last = Observed("init", <<>>, <<>>, [p \in {} |-> Session(p)],
                       Turn(EmptyDict, "returned", NoReply, <<>>), FALSE, NoInput)
    /\ via = [p \in Party |-> "none"]
    /\ wrong = [p \in Party |-> 0]
    /\ live = {}
    /\ web \in [token_set : BOOLEAN, requests : {<<>>}]
    /\ mask = NoMask
    /\ co = NoTurns
    /\ otp_store = NoOtp

(* A request's payload has arrived (await request.json() returned): the   *)
(* task runs the loop up to its first suspension.                          *)
Accept(payload) ==
    /\ Len(web.requests) < MaxRequests
    /\ LET x == run_loop(sessions, payload, 1, web.token_set) IN
       /\ sessions' = x.store
       /\ web' = [web EXCEPT !.requests = Append(@, x.task)]
    /\ UNCHANGED <<last, via, wrong, live, mask, co, otp_store>>

(* The await that suspended request k returns: after the commit the reply  *)
(* is sent, after the reply the loop goes on with the next message.        *)
Resume(k) ==
    /\ k \in DOMAIN web.requests
    /\ web.requests[k].status \in {"commit", "send"}
    /\ LET task == web.requests[k]
           x == IF task.status = "commit" /\ web.token_set
                THEN [store |-> sessions,
                      task |-> Task(task.payload, "send", task.pos)]
                ELSE run_loop(sessions, task.payload, task.pos + 1, web.token_set)
       IN /\ sessions' = x.store
          /\ web' = [web EXCEPT !.requests[k] = x.task]
    /\ UNCHANGED <<last, via, wrong, live, mask, co, otp_store>>

NextWebhook ==
    \/ \E payload \in Payloads : Accept(payload)
    \/ \E k \in 1..MaxRequests : Resume(k)

SpecWebhook == InitWebhook /\ [][NextWebhook]_vars

----------------------------------------------------------------------------
(* AuthAgent._mask_email on its own: the e-mail address is drawn from the  *)
(* addresses below, and one step applies the function to it.               *)

LocalChars == {"a", "b", "o"}

Locals ==
    UNION {[1..n -> LocalChars] : n \in 1..MaxLocal}
    \cup {<<"a", "l", "i", "c", "e">>}

Domains == {<<"example.com">>, <<"x.com">>}

(* Addresses with one "@" and a local part, and addresses without: no     *)
(* "@", two "@", an empty local part.                                      *)
Emails ==
    {local \o <<"@">> \o domain : local \in Locals, domain \in Domains}
    \cup {<<"a", "b">>, <<"a", "@", "b", "@", "x.com">>, <<"@", "x.com">>}

InitMask ==
    /\ sessions = [p \in {} |-> Session(p)]
    /\ last = Observed("init", <<>>, <<>>, [p \in {} |-> Session(p)],
                       Turn(EmptyDict, "returned", NoReply, <<>>), FALSE, NoInput)
    /\ via = [p \in Party |-> "none"]
    /\ wrong = [p \in Party |-> 0]
    /\ live = {}
    /\ web = [token_set |-> FALSE, requests |-> <<>>]
    /\ mask \in {[email |-> email, masked |-> Pending] : email \in Emails}
    /\ co = NoTurns
    /\ otp_store = NoOtp

MaskEmail ==
    /\ mask.masked = Pending
    /\ mask' = [mask EXCEPT !.masked = _mask_email(mask.email)]
    /\ UNCHANGED <<sessions, last, via, wrong, live, web, co, otp_store>>

NextMask == MaskEmail

SpecMask == InitMask /\ [][NextMask]_vars

----------------------------------------------------------------------------
(* Interleaved handle turns of one party.  Each turn is a coroutine on the *)
(* party's one session.state mapping: it runs alone up to an await of an   *)
(* external call and goes on when the call returns, and other turns of the *)
(* party run in between.  co lists the turns in the order they began:      *)
(*   pc         the call the turn awaits ("lookup_by_phone",               *)
(*              "lookup_by_client_id", "send_otp", "verify_otp"), or       *)
(*              "done"                                                     *)
(*   arg        message.strip()                                            *)
(*   client_id, name, email   the turn's local variables of those names    *)
(*   verified   verify_otp returned true to this turn                      *)

TurnParty == <<"+10000000000">>

(* What the party may type: its phone identifier, a code, a client id. *)
TurnTexts == Texts \cup {TurnParty} \cup {<<r.client_id>> : r \in Records}

(* The identity directory (seed.py): the phone of each client. *)
PhoneOf(rec) ==
    IF rec = ALICE THEN <<"+15551234567">> ELSE <<"+442071234567">>

(* The records the directory holds for the argument of a lookup. *)
Directory(fn, arg) ==
    {rec \in Records : IF fn = "lookup_by_phone" THEN PhoneOf(rec) = arg
                                                 ELSE <<rec.client_id>> = arg}

(* The response is one the directory can give to the lookup: a record it   *)
(* holds for the argument, 404 when it holds none, or a fault.             *)
Answers(fn, arg, resp) ==
    /\ (resp.kind = "response" /\ resp.status = 200 /\ resp.json = "ok")
       => resp.body \in Directory(fn, arg)
    /\ (resp.kind = "response" /\ resp.status = 404)
       => Directory(fn, arg) = {}

Coroutine(pc, arg, client_id, name, email, verified) ==
    [pc |-> pc, arg |-> arg, client_id |-> client_id, name |-> name,
     email |-> email, verified |-> verified]

(* handle up to its first await. *)
begin_handle(message, session_state) ==
    LET status == DictGet(session_state, AUTH_STATUS_KEY, STATUS_AWAITING_PHONE)
        arg == Strip(message)
    IN IF status = STATUS_AUTHENTICATED
       THEN Coroutine("done", arg, "", "", <<>>, FALSE)
       ELSE IF status = STATUS_AWAITING_OTP
            THEN Coroutine("verify_otp", arg,
                           DictGet(session_state, AUTH_CLIENT_ID_KEY, ""),
                           DictGet(session_state, AUTH_USER_KEY, ""), <<>>, FALSE)
       ELSE IF status = STATUS_AWAITING_CLIENT_ID
            THEN Coroutine("lookup_by_client_id", arg, "", "", <<>>, FALSE)
       ELSE Coroutine("lookup_by_phone", arg, "", "", <<>>, FALSE)

(* _handle_phone / _handle_client_id from the return of the lookup up to   *)
(* the await of send_otp in _initiate_otp, or to the turn's end.           *)
after_lookup(c, session_state, record) ==
    IF record.tag = "raise"
    THEN [state |-> session_state, co |-> [c EXCEPT !.pc = "done"]]
    ELSE IF record.val.found
         THEN LET rec == record.val.rec
                  s1 == DictSet(session_state, AUTH_CLIENT_ID_KEY, rec.client_id)
                  s2 == DictSet(s1, AUTH_USER_KEY, rec.name)
                  s3 == DictSet(s2, AUTH_EMAIL_KEY, rec.email)
              IN [state |-> s3,
                  co |-> Coroutine("send_otp", c.arg, rec.client_id, rec.name,
                                   rec.email, FALSE)]
    ELSE IF c.pc = "lookup_by_phone"
         THEN [state |-> DictSet(session_state, AUTH_STATUS_KEY,
                                 STATUS_AWAITING_CLIENT_ID),
               co |-> [c EXCEPT !.pc = "done"]]
    ELSE [state |-> session_state, co |-> [c EXCEPT !.pc = "done"]]

(* _initiate_otp from the return of send_otp. *)
after_send(c, session_state, otp_sent) ==
    IF otp_sent.tag = "return" /\ otp_sent.val
    THEN [state |-> DictSet(session_state, AUTH_STATUS_KEY, STATUS_AWAITING_OTP),
          co |-> [c EXCEPT !.pc = "done"]]
    ELSE [state |-> session_state, co |-> [c EXCEPT !.pc = "done"]]

(* _handle_otp from the return of verify_otp. *)
after_verify(c, session_state, is_valid) ==
    IF is_valid.tag = "return" /\ is_valid.val
    THEN [state |-> DictSet(session_state, AUTH_STATUS_KEY, STATUS_AUTHENTICATED),
          co |-> [c EXCEPT !.pc = "done", !.verified = TRUE]]
    ELSE [state |-> session_state, co |-> [c EXCEPT !.pc = "done"]]

InitTurns ==
    /\ sessions = get([p \in {} |-> Session(p)], TurnParty).store
    /\ last = Observed("init", <<>>, <<>>, [p \in {} |-> Session(p)],
                       Turn(EmptyDict, "returned", NoReply, <<>>), FALSE, NoInput)
    /\ via = [p \in Party |-> "none"]
    /\ wrong = [p \in Party |-> 0]
    /\ live = {TurnParty}
    /\ web = [token_set |-> FALSE, requests |-> <<>>]
    /\ mask = NoMask
    /\ co = NoTurns
    /\ otp_store = NoOtp

(* A turn of the party begins: AuthAgent.handle(message, session.state). *)
Begin(message) ==
    /\ Len(co) < MaxTurns
    /\ co' = Append(co, begin_handle(message, sessions[TurnParty].state))
    /\ UNCHANGED <<sessions, last, via, wrong, live, web, mask, otp_store>>

(* The lookup that turn t awaits returns. *)
LookupReturns(t, resp) ==
    /\ t \in DOMAIN co
    /\ IsLookup(co[t].pc)
    /\ Answers(co[t].pc, co[t].arg, resp)
    /\ LET record == IF co[t].pc = "lookup_by_phone" THEN lookup_by_phone(resp)
                     ELSE lookup_by_client_id(resp)
           x == after_lookup(co[t], sessions[TurnParty].state, record)
       IN /\ sessions' = [sessions EXCEPT ![TurnParty].state = x.state]
          /\ co' = [co EXCEPT ![t] = x.co]
    /\ UNCHANGED <<last, via, wrong, live, web, mask, otp_store>>

(* The send_otp that turn t awaits returns. *)
SendReturns(t, resp) ==
    /\ t \in DOMAIN co
    /\ co[t].pc = "send_otp"
    /\ LET x == after_send(co[t], sessions[TurnParty].state, send_otp(resp))
       IN /\ sessions' = [sessions EXCEPT ![TurnParty].state = x.state]
          /\ co' = [co EXCEPT ![t] = x.co]
    /\ UNCHANGED <<last, via, wrong, live, web, mask, otp_store>>

(* The verify_otp that turn t awaits returns. *)
VerifyReturns(t, resp) ==
    /\ t \in DOMAIN co
    /\ co[t].pc = "verify_otp"
    /\ LET x == after_verify(co[t], sessions[TurnParty].state, verify_otp(resp))
       IN /\ sessions' = [sessions EXCEPT ![TurnParty].state = x.state]
          /\ co' = [co EXCEPT ![t] = x.co]
    /\ UNCHANGED <<last, via, wrong, live, web, mask, otp_store>>

NextTurns ==
    \/ \E message \in TurnTexts : Begin(message)
    \/ \E t \in 1..MaxTurns :
          \/ \E resp \in LookupResponses : LookupReturns(t, resp)
          \/ \E resp \in SendResponses : SendReturns(t, resp)
          \/ \E resp \in VerifyResponses : VerifyReturns(t, resp)

SpecTurns == InitTurns /\ [][NextTurns]_vars

----------------------------------------------------------------------------
(* AuthAgent against the mock external API (mock_external_api/router.py)   *)
(* and its OTPStore (otp_store.py).  otp_store holds                       *)
(*   entries   OTPStore._store: client_id -> (otp_code, created_at)        *)
(*   now       time.time(), in seconds                                     *)
(*   ticks     how many times the clock has advanced (up to MaxTicks)      *)
(* A turn runs to its end without interleaving.                            *)

OTP_TTL_SECONDS == 300

(* The clock advances by a second or by the validity period. *)
Durations == {1, OTP_TTL_SECONDS}

(* The codes random.choices may draw. *)
Codes == {<<"123456">>, <<"654321">>}

OtpTexts(p) == Texts \cup Codes \cup {p, <<ALICE.client_id>>}

(* OTPStore.generate(client_id), drawing code at time now. *)
generate(entries, client_id, code, now) ==
    DictSet(entries, client_id, [code |-> code, created_at |-> now])

(* Mutant: a successful verification does not consume the code. *)
verify_keep(entries, client_id, code, now) ==
    IF client_id \notin DOMAIN entries
    THEN [entries |-> entries, valid |-> FALSE]
    ELSE IF now - entries[client_id].created_at > OTP_TTL_SECONDS
         THEN [entries |-> DictPop(entries, client_id), valid |-> FALSE]
    ELSE IF code = entries[client_id].code
         THEN [entries |-> entries, valid |-> TRUE]
    ELSE [entries |-> entries, valid |-> FALSE]

(* Mutant: a wrong code consumes the outstanding code. *)
verify_strict(entries, client_id, code, now) ==
    IF client_id \notin DOMAIN entries
    THEN [entries |-> entries, valid |-> FALSE]
    ELSE IF now - entries[client_id].created_at > OTP_TTL_SECONDS
         THEN [entries |-> DictPop(entries, client_id), valid |-> FALSE]
    ELSE IF code = entries[client_id].code
         THEN [entries |-> DictPop(entries, client_id), valid |-> TRUE]
    ELSE [entries |-> DictPop(entries, client_id), valid |-> FALSE]

(* OTPStore.verify(client_id, otp) at time now: the store it leaves and    *)
(* the value it returns.                                                   *)
verify(entries, client_id, code, now) ==
    IF client_id \notin DOMAIN entries
    THEN [entries |-> entries, valid |-> FALSE]
    ELSE IF now - entries[client_id].created_at > OTP_TTL_SECONDS
         THEN [entries |-> DictPop(entries, client_id), valid |-> FALSE]
    ELSE IF code = entries[client_id].code
         THEN [entries |-> DictPop(entries, client_id), valid |-> TRUE]
    ELSE [entries |-> entries, valid |-> FALSE]

Ok200(body) == [kind |-> "response", status |-> 200, json |-> "ok", body |-> body]

(* The mock API's answer to a lookup: the record of the directory, or 404. *)
mock_lookup(fn, arg) ==
    IF Directory(fn, arg) = {}
    THEN [kind |-> "response", status |-> 404, json |-> "ok", body |-> NoRecord]
    ELSE Ok200(CHOOSE rec \in Directory(fn, arg) : TRUE)

(* One handle turn of a session against the mock API: the turn, and the    *)
(* entries of the OTP store after it.  code is the code generate draws if  *)
(* the turn sends one.                                                     *)
mock_turn(message, session_state, store, code) ==
    LET status == StatusOf(session_state)
        fn == IF status = STATUS_AWAITING_CLIENT_ID THEN "lookup_by_client_id"
              ELSE "lookup_by_phone"
        v == verify(store.entries, DictGet(session_state, AUTH_CLIENT_ID_KEY, ""),
                    Strip(message), store.now)
        r1 == IF status = STATUS_AWAITING_OTP
              THEN Ok200(DictSet(EmptyDict, "valid", v.valid))
              ELSE mock_lookup(fn, Strip(message))
        r2 == Ok200(DictSet(EmptyDict, "success", TRUE))
        t == handle(message, session_state, r1, r2)
    IN [turn |-> t,
        entries |-> IF Called(t.calls, "verify_otp") THEN v.entries
                    ELSE IF Called(t.calls, "send_otp")
                         THEN generate(store.entries, t.calls[2].args[1], code,
                                       store.now)
                    ELSE store.entries]

InitOtp ==
    /\ sessions = [p \in Party |-> Session(p)]
    /\ last = Observed("init", <<>>, <<>>, [p \in {} |-> Session(p)],
                       Turn(EmptyDict, "returned", NoReply, <<>>), FALSE, NoInput)
    /\ via = [p \in Party |-> "none"]
    /\ wrong = [p \in Party |-> 0]
    /\ live = Party
    /\ web = [token_set |-> FALSE, requests |-> <<>>]
    /\ mask = NoMask
    /\ co = NoTurns
    /\ otp_store = NoOtp

(* AuthAgent.handle(message, session.state) for party p. *)
OtpTurn(p, message, code) ==
    /\ LET x == mock_turn(message, sessions[p].state, otp_store, code) IN
       /\ sessions' = [sessions EXCEPT ![p].state = x.turn.state]
       /\ otp_store' = [otp_store EXCEPT !.entries = x.entries]
    /\ UNCHANGED <<last, via, wrong, live, web, mask, co>>

(* Time passes. *)
Tick(d) ==
    /\ otp_store.ticks < MaxTicks
    /\ otp_store' = [otp_store EXCEPT !.now = @ + d, !.ticks = @ + 1]
    /\ UNCHANGED <<sessions, last, via, wrong, live, web, mask, co>>

NextOtp ==
    \/ \E p \in Party : \E message \in OtpTexts(p) : \E code \in Codes :
          OtpTurn(p, message, code)
    \/ \E d \in Durations : Tick(d)

SpecOtp == InitOtp /\ [][NextOtp]_vars

----------------------------------------------------------------------------
(* OTPStore on its own: generate and verify called directly, as the        *)
(* endpoints /otp/send and /otp/verify of the mock API call them, while    *)
(* time passes.  In this specification last holds                          *)
(*   op, client_id, code   the last call and its arguments                 *)
(*   valid                 what verify returned                            *)
(*   issued                per client_id, the most recent generate: its    *)
(*                         code, its time, whether a verify of it has      *)
(*                         returned true (used), and whether a verify with *)
(*                         another code has been made while it was         *)
(*                         unexpired (missed)                              *)

StoreClients == {ALICE.client_id, CAROL.client_id}

StoreCall(op, client_id, code, valid, issued) ==
    [op |-> op, client_id |-> client_id, code |-> code, valid |-> valid,
     issued |-> issued]

InitStore ==
    /\ sessions = [p \in {} |-> Session(p)]
    /\ last = StoreCall("init", "", <<>>, FALSE, [c \in {} |-> <<>>])
    /\ via = [p \in Party |-> "none"]
    /\ wrong = [p \in Party |-> 0]
    /\ live = {}
    /\ web = [token_set |-> FALSE, requests |-> <<>>]
    /\ mask = NoMask
    /\ co = NoTurns
    /\ otp_store = NoOtp

(* _otp_store.generate(client_id), drawing code. *)
Generate(client_id, code) ==
    /\ otp_store' = [otp_store EXCEPT
                        !.entries = generate(@, client_id, code, otp_store.now)]
    /\ last' = StoreCall("generate", client_id, code, FALSE,
                         DictSet(last.issued, client_id,
                                 [code |-> code, at |-> otp_store.now,
                                  used |-> FALSE, missed |-> FALSE]))
    /\ UNCHANGED <<sessions, via, wrong, live, web, mask, co>>

(* _otp_store.verify(client_id, otp) *)
Verify(client_id, code) ==
    LET v == verify(otp_store.entries, client_id, code, otp_store.now) IN
    /\ otp_store' = [otp_store EXCEPT !.entries = v.entries]
    /\ last' = StoreCall("verify", client_id, code, v.valid,
                         IF client_id \in DOMAIN last.issued
                         THEN [last.issued EXCEPT
                                 ![client_id].used = @ \/ v.valid,
                                 ![client_id].missed =
                                     @ \/ /\ code # last.issued[client_id].code
                                          /\ otp_store.now - last.issued[client_id].at
                                                <= OTP_TTL_SECONDS]
                         ELSE last.issued)
    /\ UNCHANGED <<sessions, via, wrong, live, web, mask, co>>

(* Time passes. *)
StoreTick(d) ==
    /\ otp_store.ticks < MaxTicks
    /\ otp_store' = [otp_store EXCEPT !.now = @ + d, !.ticks = @ + 1]
    /\ last' = [last EXCEPT !.op = "tick"]
    /\ UNCHANGED <<sessions, via, wrong, live, web, mask, co>>

NextStore ==
    \/ \E client_id \in StoreClients, code \in Codes :
          \/ Generate(client_id, code)
          \/ Verify(client_id, code)
    \/ \E d \in Durations : StoreTick(d)

SpecStore == InitStore /\ [][NextStore]_vars

----------------------------------------------------------------------------
(* ExternalClientAPI on its own: one client object answers a series of     *)
(* calls, each with the HTTP outcome its request meets.  In this           *)
(* specification last is the sequence of the calls made so far, each with  *)
(* its method, the outcome of its request, and its result.                 *)

MaxCalls == 2

ApiCall(fn, resp, ret) == [fn |-> fn, resp |-> resp, ret |-> ret]

InitApi ==
    /\ sessions = [p \in {} |-> Session(p)]
    /\ last = <<>>
    /\ via = [p \in Party |-> "none"]
    /\ wrong = [p \in Party |-> 0]
    /\ live = {}
    /\ web = [token_set |-> FALSE, requests |-> <<>>]
    /\ mask = NoMask
    /\ co = NoTurns
    /\ otp_store = NoOtp

(* await self._http.get(.../clients/by-phone/...) answered by resp *)
LookupByPhone(resp) ==
    /\ Len(last) < MaxCalls
    /\ last' = Append(last, ApiCall("lookup_by_phone", resp, lookup_by_phone(resp)))
    /\ UNCHANGED <<sessions, via, wrong, live, web, mask, co, otp_store>>

(* await self._http.get(.../clients/by-id/...) answered by resp *)
LookupByClientId(resp) ==
    /\ Len(last) < MaxCalls
    /\ last' = Append(last, ApiCall("lookup_by_client_id", resp,
                                    lookup_by_client_id(resp)))
    /\ UNCHANGED <<sessions, via, wrong, live, web, mask, co, otp_store>>

(* await self._http.post(.../otp/send) answered by resp *)
SendOtp(resp) ==
    /\ Len(last) < MaxCalls
    /\ last' = Append(last, ApiCall("send_otp", resp, send_otp(resp)))
    /\ UNCHANGED <<sessions, via, wrong, live, web, mask, co, otp_store>>

(* await self._http.post(.../otp/verify) answered by resp *)
VerifyOtp(resp) ==
    /\ Len(last) < MaxCalls
    /\ last' = Append(last, ApiCall("verify_otp", resp, verify_otp(resp)))
    /\ UNCHANGED <<sessions, via, wrong, live, web, mask, co, otp_store>>

NextApi ==
    \/ \E resp \in LookupResponses : LookupByPhone(resp)
    \/ \E resp \in LookupResponses : LookupByClientId(resp)
    \/ \E resp \in SendResponses : SendOtp(resp)
    \/ \E resp \in VerifyResponses : VerifyOtp(resp)

SpecApi == InitApi /\ [][NextApi]_vars

----------------------------------------------------------------------------
(* Vocabulary of the properties *)

HasSession(p) == p \in DOMAIN sessions

StateNow(p) == sessions[p].state

(* The last operation was an AuthAgent.handle turn. *)
HandleTurn == last.op = "handle"

(* The session state of the last operation's party after the operation. *)
Post == StateNow(last.party)

(* The last turn called fn, which returned a record. *)
FoundBy(fn) ==
    \E i \in 1..Len(last.calls) :
        /\ last.calls[i].fn = fn
        /\ last.calls[i].ret.tag = "return"
        /\ last.calls[i].ret.val.found

FoundRecord(fn) ==
    last.calls[CHOOSE i \in 1..Len(last.calls) : last.calls[i].fn = fn].ret.val.rec

(* The last turn called fn, which returned no record. *)
MissedBy(fn) == Returned(last.calls, fn, None)

(* The state a successful _initiate_otp leaves from an empty state. *)
OtpState(rec) ==
    [k \in {AUTH_CLIENT_ID_KEY, AUTH_USER_KEY, AUTH_EMAIL_KEY, AUTH_STATUS_KEY} |->
        IF k = AUTH_CLIENT_ID_KEY THEN rec.client_id
        ELSE IF k = AUTH_USER_KEY THEN rec.name
        ELSE IF k = AUTH_EMAIL_KEY THEN rec.email
        ELSE STATUS_AWAITING_OTP]

SessionKeys == {AUTH_STATUS_KEY, AUTH_USER_KEY, AUTH_EMAIL_KEY, AUTH_CLIENT_ID_KEY}

----------------------------------------------------------------------------
(* C1: starting from an empty session state, a handle turn whose           *)
(* lookup_by_phone returns a record and whose send_otp returns true leaves *)
(* auth_status = awaiting_otp and replies with the record's display name;  *)
(* a verify_otp that returns true on the next turn leaves auth_status =    *)
(* authenticated and replies 'Verified'.                                   *)
C1_PhoneMatchOtpFlow ==
    HandleTurn =>
        /\ (/\ last.pre = EmptyDict
            /\ FoundBy("lookup_by_phone")
            /\ Returned(last.calls, "send_otp", TRUE))
           => /\ last.outcome = "returned"
              /\ StatusOf(Post) = STATUS_AWAITING_OTP
              /\ Post = OtpState(FoundRecord("lookup_by_phone"))
              /\ last.reply.text = T_ACCOUNT_FOUND
              /\ last.reply.name = FoundRecord("lookup_by_phone").name
        /\ (/\ \E rec \in Records : last.pre = OtpState(rec)
            /\ via[last.party] = "lookup_by_phone"
            /\ Returned(last.calls, "verify_otp", TRUE))
           => /\ last.outcome = "returned"
              /\ StatusOf(Post) = STATUS_AUTHENTICATED
              /\ last.reply.text = T_VERIFIED

C1_Witness ==
    /\ HandleTurn
    /\ last.pre = OtpState(ALICE)
    /\ via[last.party] = "lookup_by_phone"
    /\ wrong[last.party] = 0
    /\ Returned(last.calls, "verify_otp", TRUE)
    /\ StatusOf(Post) = STATUS_AUTHENTICATED
    /\ last.reply.text = T_VERIFIED

(* C2: auth_status becomes authenticated only in a handle turn that        *)
(* started with auth_status = awaiting_otp and whose verify_otp, called    *)
(* with the stored auth_client_id and the (trimmed) message, returned      *)
(* true; a lookup result alone never sets authenticated.                   *)
BecomesAuthenticated(p) ==
    /\ p \in DOMAIN sessions'
    /\ StatusOf(sessions'[p].state) = STATUS_AUTHENTICATED
    /\ ~(HasSession(p) /\ StatusOf(StateNow(p)) = STATUS_AUTHENTICATED)

C2_OtpGatesAuthentication ==
    [][\A p \in Party :
          BecomesAuthenticated(p) =>
             /\ last'.op = "handle"
             /\ last'.party = p
             /\ StatusOf(last'.pre) = STATUS_AWAITING_OTP
             /\ Len(last'.calls) = 1
             /\ last'.calls[1] =
                   Call("verify_otp",
                        <<DictGet(last'.pre, AUTH_CLIENT_ID_KEY, ""), Strip(last'.message)>>,
                        Return(TRUE))]_vars

C2_Witness ==
    /\ HandleTurn
    /\ StatusOf(last.pre) = STATUS_AWAITING_OTP
    /\ StatusOf(Post) = STATUS_AUTHENTICATED
    /\ last.calls = <<Call("verify_otp", <<"GLX-2001", <<"123456">>>>, Return(TRUE))>>

(* C3: a handle turn in which send_otp returns false leaves auth_status at *)
(* its value before the turn (absent or awaiting_client_id, never          *)
(* awaiting_otp) and replies with the 'unable to send' error; a retry from *)
(* the state it leaves, with send_otp true, reaches awaiting_otp.          *)
C3_OtpSendFailure ==
    HandleTurn =>
        /\ Returned(last.calls, "send_otp", FALSE)
           => /\ StatusOf(Post) = StatusOf(last.pre)
              /\ StatusOf(Post) \in {"absent", STATUS_AWAITING_CLIENT_ID}
              /\ last.outcome = "returned"
              /\ last.reply.text = T_UNABLE
        /\ (/\ AUTH_CLIENT_ID_KEY \in DOMAIN last.pre
            /\ StatusOf(last.pre) \in {"absent", STATUS_AWAITING_CLIENT_ID}
            /\ Returned(last.calls, "send_otp", TRUE))
           => StatusOf(Post) = STATUS_AWAITING_OTP

C3_Witness ==
    /\ HandleTurn
    /\ StatusOf(last.pre) = STATUS_AWAITING_CLIENT_ID
    /\ FoundBy("lookup_by_client_id")
    /\ Returned(last.calls, "send_otp", FALSE)
    /\ StatusOf(Post) = STATUS_AWAITING_CLIENT_ID
    /\ last.reply.text = T_UNABLE

(* C4: in awaiting_otp, a turn in which verify_otp returns false leaves    *)
(* the whole session state unchanged (no counter, no lockout), however     *)
(* many such turns came before, and a following turn in which verify_otp   *)
(* returns true moves auth_status to authenticated.                        *)
C4_WrongOtpThenCorrect ==
    (HandleTurn /\ StatusOf(last.pre) = STATUS_AWAITING_OTP) =>
        /\ Returned(last.calls, "verify_otp", FALSE)
           => /\ Post = last.pre
              /\ DOMAIN Post \subseteq SessionKeys
              /\ last.reply.text = T_INCORRECT
        /\ Returned(last.calls, "verify_otp", TRUE)
           => /\ StatusOf(Post) = STATUS_AUTHENTICATED
              /\ Post = DictSet(last.pre, AUTH_STATUS_KEY, STATUS_AUTHENTICATED)

C4_Witness ==
    /\ HandleTurn
    /\ StatusOf(last.pre) = STATUS_AWAITING_OTP
    /\ wrong[last.party] = MaxWrong
    /\ Returned(last.calls, "verify_otp", TRUE)
    /\ StatusOf(Post) = STATUS_AUTHENTICATED

(* C5: when lookup_by_phone returns no record on first contact,            *)
(* auth_status becomes awaiting_client_id and the reply asks for the       *)
(* Client ID; a later turn whose lookup_by_client_id returns a record      *)
(* (send_otp true) moves it to awaiting_otp, and a valid OTP after that    *)
(* moves it to authenticated.                                              *)
C5_ClientIdFallback ==
    HandleTurn =>
        /\ (StatusOf(last.pre) = "absent" /\ MissedBy("lookup_by_phone"))
           => /\ StatusOf(Post) = STATUS_AWAITING_CLIENT_ID
              /\ last.reply.text = T_ASK_CLIENT_ID
        /\ (/\ StatusOf(last.pre) = STATUS_AWAITING_CLIENT_ID
            /\ FoundBy("lookup_by_client_id")
            /\ Returned(last.calls, "send_otp", TRUE))
           => /\ StatusOf(Post) = STATUS_AWAITING_OTP
              /\ Post[AUTH_CLIENT_ID_KEY] = FoundRecord("lookup_by_client_id").client_id
              /\ last.reply.name = FoundRecord("lookup_by_client_id").name
        /\ (/\ StatusOf(last.pre) = STATUS_AWAITING_OTP
            /\ via[last.party] = "lookup_by_client_id"
            /\ Returned(last.calls, "verify_otp", TRUE))
           => StatusOf(Post) = STATUS_AUTHENTICATED

C5_Witness ==
    /\ HandleTurn
    /\ via[last.party] = "lookup_by_client_id"
    /\ StatusOf(last.pre) = STATUS_AWAITING_OTP
    /\ Returned(last.calls, "verify_otp", TRUE)
    /\ StatusOf(Post) = STATUS_AUTHENTICATED
    /\ last.reply = AgentResponse(T_VERIFIED, "Alice Johnson", <<>>)

(* C6: in awaiting_client_id, a turn whose lookup_by_client_id returns no  *)
(* record leaves the whole session state unchanged, makes no send_otp or   *)
(* verify_otp call, and replies with the not-found message.                *)
C6_ClientIdMiss ==
    (/\ HandleTurn
     /\ StatusOf(last.pre) = STATUS_AWAITING_CLIENT_ID
     /\ MissedBy("lookup_by_client_id"))
    => /\ Post = last.pre
       /\ Len(last.calls) = 1
       /\ ~Called(last.calls, "send_otp")
       /\ ~Called(last.calls, "verify_otp")
       /\ last.outcome = "returned"
       /\ last.reply = AgentResponse(T_NOT_FOUND, "", <<>>)

C6_Witness ==
    /\ HandleTurn
    /\ last.pre = DictSet(EmptyDict, AUTH_STATUS_KEY, STATUS_AWAITING_CLIENT_ID)
    /\ MissedBy("lookup_by_client_id")
    /\ Post = last.pre
    /\ last.reply.text = T_NOT_FOUND

(* C7: while no lookup of a party's session has returned a record, its     *)
(* auth_status is never awaiting_otp or authenticated, and every reply     *)
(* after the first (the request for the Client ID) is the not-found        *)
(* message that directs the party to support.                              *)
C7_NoMatchNeverAuthenticates ==
    /\ \A p \in Party :
          (HasSession(p) /\ via[p] = "none")
          => StatusOf(StateNow(p)) \in {"absent", STATUS_AWAITING_CLIENT_ID}
    /\ (HandleTurn /\ via[last.party] = "none" /\ last.outcome = "returned")
       => last.reply.text =
             IF AUTH_STATUS_KEY \in DOMAIN last.pre THEN T_NOT_FOUND ELSE T_ASK_CLIENT_ID

C7_Witness ==
    /\ HandleTurn
    /\ via[last.party] = "none"
    /\ StatusOf(last.pre) = STATUS_AWAITING_CLIENT_ID
    /\ StatusOf(Post) = STATUS_AWAITING_CLIENT_ID
    /\ last.outcome = "returned"
    /\ last.reply.text = T_NOT_FOUND

(* C8: for a party whose auth_status is authenticated, a message through   *)
(* AuthAgent.handle or MessageRouter.route gets a reply with the stored    *)
(* auth_user_name, makes no external call and leaves the session state     *)
(* unchanged.                                                              *)
C8_AlreadyAuthenticated ==
    (last.op \in {"handle", "route"} /\ StatusOf(last.pre) = STATUS_AUTHENTICATED)
    => /\ last.outcome = "returned"
       /\ last.reply.text = (IF last.op = "handle" THEN T_ALREADY ELSE T_HELLO)
       /\ last.reply.name = last.pre[AUTH_USER_KEY]
       /\ last.calls = <<>>
       /\ Post = last.pre

C8_Witness ==
    /\ last.op = "route"
    /\ StatusOf(last.pre) = STATUS_AUTHENTICATED
    /\ last.reply = AgentResponse(T_HELLO, "Carol Davis", <<>>)
    /\ Post = last.pre

(* C9: once a party's auth_status is authenticated it stays authenticated  *)
(* after every later operation, until SessionManager.clear removes the     *)
(* party's session.                                                        *)
C9_AuthenticatedIsTerminal ==
    [][\A p \in Party :
          (HasSession(p) /\ StatusOf(StateNow(p)) = STATUS_AUTHENTICATED)
          => \/ /\ p \in DOMAIN sessions'
                /\ StatusOf(sessions'[p].state) = STATUS_AUTHENTICATED
             \/ /\ last'.op = "clear"
                /\ last'.party = p
                /\ p \notin DOMAIN sessions']_vars

C9_Witness ==
    /\ HandleTurn
    /\ StatusOf(last.pre) = STATUS_AUTHENTICATED
    /\ StatusOf(Post) = STATUS_AUTHENTICATED
    /\ last.reply.text = T_ALREADY

(* C10: when the party's session has no auth_status key, route passes the  *)
(* party's phone identifier to AuthAgent.handle; when auth_status is       *)
(* present and not authenticated, route passes the message text.           *)
C10_FirstContactRule ==
    (last.op = "route" /\ StatusOf(last.pre) # STATUS_AUTHENTICATED)
    => /\ last.handled
       /\ last.input = IF AUTH_STATUS_KEY \in DOMAIN last.pre
                       THEN last.message
                       ELSE last.party

(* C11: for every party whose session is not authenticated, route          *)
(* dispatches the turn to AuthAgent.handle and returns the AgentResponse   *)
(* handle produced; route returns a reply, never raising, for every party  *)
(* and message.                                                            *)
C11_RouteDispatchesToHandle ==
    last.op = "route"
    => /\ last.outcome = "returned"
       /\ last.reply # NoReply
       /\ (StatusOf(last.pre) # STATUS_AUTHENTICATED => last.handled)

(* A fault of the identity directory during a lookup of the last turn: a   *)
(* transport error or a response that is neither 200 nor 404.              *)
LookupFault ==
    \E i \in 1..Len(last.calls) :
        IsLookup(last.calls[i].fn) /\ last.calls[i].ret.log # ""

(* C13: SessionManager.get never fails; for a party with no stored session *)
(* it creates and stores a session with empty state that is not            *)
(* authenticated; for a party with a stored session it returns that        *)
(* session and leaves it stored unchanged.                                 *)
C13_GetCreatesOrReturns ==
    [][last'.op = "get"
       => /\ last'.outcome = "returned"
          /\ last'.party \in DOMAIN sessions'
          /\ IF last'.party \in DOMAIN sessions
             THEN /\ sessions'[last'.party] = sessions[last'.party]
                  /\ get(sessions, last'.party).session = sessions[last'.party]
             ELSE /\ sessions'[last'.party] = Session(last'.party)
                  /\ get(sessions, last'.party).session = sessions'[last'.party]
                  /\ sessions'[last'.party].state = EmptyDict
                  /\ ~is_authenticated(sessions'[last'.party])]_vars

C13_Witness ==
    /\ last.op = "get"
    /\ last.preExists
    /\ StatusOf(last.pre) = STATUS_AWAITING_OTP
    /\ HasSession(last.party)
    /\ Post = last.pre

(* C14: SessionManager.clear(p) does not raise; on a party with no session *)
(* it changes nothing; a second clear(p) leaves the store as the first     *)
(* left it; and it removes only p's session.                               *)
C14_ClearIdempotent ==
    [][last'.op = "clear"
       => /\ last'.outcome = "returned"
          /\ last'.party \notin DOMAIN sessions'
          /\ (last'.party \notin DOMAIN sessions => sessions' = sessions)
          /\ clear(sessions', last'.party) = sessions'
          /\ \A q \in Party \ {last'.party} :
                /\ q \in DOMAIN sessions <=> q \in DOMAIN sessions'
                /\ q \in DOMAIN sessions => sessions'[q] = sessions[q]]_vars

C14_Witness ==
    /\ last.op = "clear"
    /\ ~last.preExists
    /\ \E q \in Party : HasSession(q) /\ StateNow(q) # EmptyDict

(* C15: when send_otp returns false inside a handle turn, the whole        *)
(* session state mapping after the turn, identity keys included, is        *)
(* identical to the mapping before the turn.                               *)
C15_NoPartialMutation ==
    (HandleTurn /\ Returned(last.calls, "send_otp", FALSE))
    => Post = last.pre

(* C16: a fault of the identity directory during a lookup (transport error *)
(* or a response that is neither 200 nor 404) is not treated as not-found: *)
(* the turn retains the prior auth_status and does not reply with the      *)
(* not-found prompts.                                                      *)
C16_LookupFaultRetainsStatus ==
    (HandleTurn /\ LookupFault)
    => /\ StatusOf(Post) = StatusOf(last.pre)
       /\ last.reply.text \notin {T_ASK_CLIENT_ID, T_NOT_FOUND}

(* C17: for every outcome of lookup_by_phone, lookup_by_client_id,         *)
(* send_otp and verify_otp, AuthAgent.handle returns an AgentResponse      *)
(* with a text reply instead of raising.                                   *)
C17_HandleNeverRaises ==
    HandleTurn => (last.outcome = "returned" /\ last.reply # NoReply)

(* C18: route, get and the webhook handler never write or change any key   *)
(* of a session's state: an operation that does not run AuthAgent.handle   *)
(* leaves every stored state as it was, stores only empty states, and      *)
(* removes a session only by clear.                                        *)
C18_OnlyStateMachineWrites ==
    [][~last'.handled
       => \A p \in Party :
             /\ (p \in DOMAIN sessions /\ p \in DOMAIN sessions')
                => sessions'[p].state = sessions[p].state
             /\ (p \notin DOMAIN sessions /\ p \in DOMAIN sessions')
                => sessions'[p].state = EmptyDict
             /\ (p \in DOMAIN sessions /\ p \notin DOMAIN sessions')
                => (last'.op = "clear" /\ last'.party = p)]_vars

C18_Witness ==
    /\ last.op = "route"
    /\ ~last.handled
    /\ last.reply.text = T_HELLO
    /\ StatusOf(last.pre) = STATUS_AUTHENTICATED
    /\ Post = last.pre

(* C19: an operation for one party (a route or handle turn, a get, a       *)
(* clear) leaves every other party's session unchanged, in existence and   *)
(* in every state key.                                                     *)
C19_PartiesDoNotInterfere ==
    [][\A q \in Party :
          q # last'.party
          => /\ q \in DOMAIN sessions <=> q \in DOMAIN sessions'
             /\ q \in DOMAIN sessions => sessions'[q] = sessions[q]]_vars

C19_Witness ==
    /\ HandleTurn
    /\ Post # last.pre
    /\ \E q \in Party \ {last.party} :
          HasSession(q) /\ StatusOf(StateNow(q)) = STATUS_AWAITING_OTP

(* The text is the logout keyword once trimmed and lower-cased. *)
IsLogout(text) == text # <<>> /\ Lower(Strip(text)) = <<"logout">>

(* C12: a message whose trimmed, lower-cased text is 'logout' is handled   *)
(* by the webhook before routing in every auth state: it clears the        *)
(* sender's session and never reaches AuthAgent.handle; the sender's next  *)
(* message finds a fresh empty session and is treated as first contact,    *)
(* a lookup_by_phone with the party id.                                    *)
C12_LogoutThenFirstContact ==
    [][/\ (last'.party # <<>> /\ IsLogout(last'.message))
          => /\ last'.op = "clear"
             /\ ~last'.handled
             /\ last'.calls = <<>>
             /\ last'.party \notin DOMAIN sessions'
       /\ (/\ last.op = "clear" /\ IsLogout(last.message)
           /\ last'.op = "route" /\ last'.party = last.party)
          => /\ ~last'.preExists
             /\ last'.handled
             /\ last'.input = last'.party
             /\ Called(last'.calls, "lookup_by_phone")]_vars

(* The message is one that receive_message routes: it has a sender and a   *)
(* text, and the text is not the logout keyword.                           *)
IsTurn(msg) == msg.sender # <<>> /\ msg.text # <<>> /\ ~IsLogout(msg.text)

(* The positions of request k's payload that the step processes. *)
ProcessedNow(k) ==
    IF k \in DOMAIN web.requests
    THEN (web.requests[k].pos + 1)..web'.requests[k].pos
    ELSE 1..web'.requests[k].pos

(* C20: for a single party, turns are processed in arrival order: a        *)
(* message's turn is not run (route does not read auth_status) while a     *)
(* request that arrived earlier still holds a message of the same party    *)
(* whose turn has not run yet.                                             *)
C20_ArrivalOrder ==
    [][\A k \in DOMAIN web'.requests : \A j \in DOMAIN web.requests :
          (j < k /\ web.requests[j].status \in {"commit", "send"})
          => \A i \in ProcessedNow(k) :
             \A e \in (web.requests[j].pos + 1)..Len(web.requests[j].payload) :
                ~ /\ IsTurn(web'.requests[k].payload[i])
                  /\ IsTurn(web.requests[j].payload[e])
                  /\ web'.requests[k].payload[i].sender
                        = web.requests[j].payload[e].sender]_vars

(* C21: within one handle turn the external calls are sequential and at    *)
(* most two: a lookup (lookup_by_phone in the initial state,               *)
(* lookup_by_client_id in awaiting_client_id) with the trimmed message     *)
(* and then, only if it returned a record, one send_otp with that record's *)
(* client_id; in awaiting_otp the only call is one verify_otp with the     *)
(* stored auth_client_id and the trimmed message; auth_status changes only *)
(* in a turn all of whose calls returned.                                  *)
C21_CallsOfATurn ==
    HandleTurn
    => LET st == StatusOf(last.pre)
           calls == last.calls
           msg == Strip(last.message)
       IN /\ Len(calls) <= 2
          /\ st = STATUS_AUTHENTICATED => calls = <<>>
          /\ st = STATUS_AWAITING_OTP
             => /\ Len(calls) = 1
                /\ calls[1].fn = "verify_otp"
                /\ calls[1].args = <<DictGet(last.pre, AUTH_CLIENT_ID_KEY, ""), msg>>
          /\ st \notin {STATUS_AUTHENTICATED, STATUS_AWAITING_OTP}
             => /\ Len(calls) >= 1
                /\ calls[1].fn = (IF st = STATUS_AWAITING_CLIENT_ID
                                  THEN "lookup_by_client_id"
                                  ELSE "lookup_by_phone")
                /\ calls[1].args = <<msg>>
                /\ Len(calls) = 2
                   <=> (calls[1].ret.tag = "return" /\ calls[1].ret.val.found)
                /\ Len(calls) = 2
                   => /\ calls[2].fn = "send_otp"
                      /\ calls[2].args = <<calls[1].ret.val.rec.client_id>>
          /\ StatusOf(Post) # st
             => \A i \in 1..Len(calls) : calls[i].ret.tag = "return"

C21_Witness ==
    /\ HandleTurn
    /\ StatusOf(last.pre) = STATUS_AWAITING_CLIENT_ID
    /\ Len(last.calls) = 2
    /\ last.calls[2].args = <<CAROL.client_id>>
    /\ StatusOf(Post) = STATUS_AWAITING_OTP

(* C23: after any sequence of operations, active_count equals the number   *)
(* of distinct parties for which get has been called and clear has not     *)
(* been called since.                                                      *)
C23_ActiveCount == active_count(sessions) = Cardinality(live)

C23_Witness ==
    /\ last.op = "clear"
    /\ last.preExists
    /\ active_count(sessions) = 1
    /\ live # {}

(* C24: in every session state the keys are among auth_status,             *)
(* auth_user_name, auth_user_email and auth_client_id, and auth_status,    *)
(* when present, is awaiting_client_id, awaiting_otp or authenticated;     *)
(* the value awaiting_phone is never stored.                               *)
C24_StateShape ==
    \A p \in Party :
        HasSession(p)
        => /\ DOMAIN StateNow(p) \subseteq SessionKeys
           /\ AUTH_STATUS_KEY \in DOMAIN StateNow(p)
              => StateNow(p)[AUTH_STATUS_KEY] \in
                    {STATUS_AWAITING_CLIENT_ID, STATUS_AWAITING_OTP,
                     STATUS_AUTHENTICATED}
           /\ \A k \in DOMAIN StateNow(p) : StateNow(p)[k] # STATUS_AWAITING_PHONE

C24_Witness ==
    /\ HandleTurn
    /\ Returned(last.calls, "verify_otp", FALSE)
    /\ DOMAIN Post = SessionKeys
    /\ \E q \in Party \ {last.party} :
          HasSession(q) /\ DOMAIN StateNow(q) = {AUTH_STATUS_KEY}

(* The order absent < awaiting_client_id < awaiting_otp < authenticated. *)
Rank(status) ==
    IF status = STATUS_AUTHENTICATED THEN 3
    ELSE IF status = STATUS_AWAITING_OTP THEN 2
    ELSE IF status = STATUS_AWAITING_CLIENT_ID THEN 1
    ELSE 0

RankNow(store, p) == IF p \in DOMAIN store THEN Rank(StatusOf(store[p].state)) ELSE 0

(* C27: under sequentially processed turns auth_status never moves         *)
(* backward in the order absent < awaiting_client_id < awaiting_otp <      *)
(* authenticated: no handle turn lowers it, and only a clear of the party  *)
(* resets its session.                                                     *)
C27_StatusNeverMovesBack ==
    [][\A p \in Party :
          /\ (last'.op = "handle" /\ last'.party = p)
             => RankNow(sessions', p) >= RankNow(sessions, p)
          /\ RankNow(sessions', p) < RankNow(sessions, p)
             => (last'.op = "clear" /\ last'.party = p)]_vars

C27_Witness ==
    /\ HandleTurn
    /\ StatusOf(last.pre) = STATUS_AWAITING_OTP
    /\ Returned(last.calls, "verify_otp", FALSE)
    /\ StatusOf(Post) = STATUS_AWAITING_OTP
    /\ wrong[last.party] = MaxWrong

(* The identity keys of a session state. *)
IdentityOf(state) ==
    [k \in DOMAIN state \cap {AUTH_CLIENT_ID_KEY, AUTH_USER_KEY, AUTH_EMAIL_KEY}
        |-> state[k]]

IdentityKeys(rec) ==
    [k \in {AUTH_CLIENT_ID_KEY, AUTH_USER_KEY, AUTH_EMAIL_KEY} |->
        IF k = AUTH_CLIENT_ID_KEY THEN rec.client_id
        ELSE IF k = AUTH_USER_KEY THEN rec.name
        ELSE rec.email]

(* C28: through handle turns, auth_status in {awaiting_otp, authenticated} *)
(* implies that auth_client_id, auth_user_name and auth_user_email are     *)
(* present and are the fields of the record returned by the most recent    *)
(* successful lookup: a turn whose lookup returned a record stores that    *)
(* record's fields, every other turn leaves the identity keys as they      *)
(* were; and the 'already verified' reply is produced with the stored      *)
(* name.                                                                   *)
C28_IdentityOfLastLookup ==
    /\ [](\A p \in Party :
            (HasSession(p)
             /\ StatusOf(StateNow(p)) \in {STATUS_AWAITING_OTP, STATUS_AUTHENTICATED})
            => /\ via[p] # "none"
               /\ DOMAIN IdentityOf(StateNow(p))
                     = {AUTH_CLIENT_ID_KEY, AUTH_USER_KEY, AUTH_EMAIL_KEY}
               /\ \E rec \in Records : IdentityOf(StateNow(p)) = IdentityKeys(rec))
    /\ [](HandleTurn
          => /\ LookupFound(last.calls)
                => IdentityOf(Post) = IdentityKeys(last.calls[1].ret.val.rec)
             /\ ~LookupFound(last.calls) => IdentityOf(Post) = IdentityOf(last.pre)
             /\ StatusOf(last.pre) = STATUS_AUTHENTICATED
                => /\ last.outcome = "returned"
                   /\ last.reply.text = T_ALREADY
                   /\ last.reply.name = last.pre[AUTH_USER_KEY])
    /\ [][\A p \in Party :
             (last'.op # "handle" /\ p \in DOMAIN sessions /\ p \in DOMAIN sessions')
             => IdentityOf(sessions'[p].state) = IdentityOf(sessions[p].state)]_vars

C28_Witness ==
    /\ HandleTurn
    /\ StatusOf(last.pre) = STATUS_AUTHENTICATED
    /\ via[last.party] = "lookup_by_client_id"
    /\ IdentityOf(Post) = IdentityKeys(CAROL)
    /\ last.reply.name = CAROL.name

(* C29: if send_otp fails on first contact, auth_status stays absent, and  *)
(* on the party's following message route again feeds the party            *)
(* identifier, not the message text, to AuthAgent.handle, which repeats    *)
(* the phone lookup.                                                       *)
C29_RetryAfterSendFailure ==
    [][/\ (last'.op = "handle" /\ StatusOf(last'.pre) = "absent"
           /\ Returned(last'.calls, "send_otp", FALSE))
          => StatusOf(sessions'[last'.party].state) = "absent"
       /\ (/\ last.op = "handle" /\ StatusOf(last.pre) = "absent"
           /\ Returned(last.calls, "send_otp", FALSE)
           /\ last'.op = "route" /\ last'.party = last.party)
          => /\ last'.handled
             /\ last'.input = last'.party
             /\ last'.calls # <<>>
             /\ last'.calls[1].fn = "lookup_by_phone"
             /\ last'.calls[1].args = <<last'.party>>]_vars

(* The positions of "@" in an e-mail address. *)
AtSigns(email) == {i \in 1..Len(email) : email[i] = "@"}

LocalPart(email) == SubSeq(email, 1, (CHOOSE i \in AtSigns(email) : TRUE) - 1)

DomainPart(email) ==
    SubSeq(email, (CHOOSE i \in AtSigns(email) : TRUE) + 1, Len(email))

(* C22: for every e-mail address with exactly one "@" and a non-empty      *)
(* local part, _mask_email returns the first character of the local part,  *)
(* then "***", then the last character of the local part only when it has  *)
(* more than two characters, then "@" and the domain unchanged; so         *)
(* alice@example.com masks to a***e@example.com and bo@x.com to            *)
(* b***@x.com.                                                             *)
C22_MaskEmail ==
    (/\ mask.masked # Pending
     /\ Cardinality(AtSigns(mask.email)) = 1
     /\ LocalPart(mask.email) # <<>>)
    => LET local == LocalPart(mask.email)
           domain == DomainPart(mask.email)
       IN /\ mask.masked.tag = "return"
          /\ mask.masked.val =
                <<local[1], "***">>
                \o (IF Len(local) > 2 THEN <<local[Len(local)]>> ELSE <<>>)
                \o <<"@">> \o domain
          /\ mask.email = <<"a", "l", "i", "c", "e", "@", "example.com">>
             => mask.masked.val = <<"a", "***", "e", "@", "example.com">>
          /\ mask.email = <<"b", "o", "@", "x.com">>
             => mask.masked.val = <<"b", "***", "@", "x.com">>

C22_Witness ==
    /\ mask.email = <<"b", "o", "@", "x.com">>
    /\ mask.masked = Return(<<"b", "***", "@", "x.com">>)

(* The session state of the party whose turns interleave. *)
TurnState == sessions[TurnParty].state

(* C25: under interleaved turns of one party, whenever auth_status is      *)
(* authenticated the stored auth_client_id and auth_user_name are those of *)
(* a client for which verify_otp returned true.                            *)
C25_AuthenticatedIdentity ==
    StatusOf(TurnState) = STATUS_AUTHENTICATED
    => \E t \in DOMAIN co :
          /\ co[t].verified
          /\ DictGet(TurnState, AUTH_CLIENT_ID_KEY, "") = co[t].client_id
          /\ DictGet(TurnState, AUTH_USER_KEY, "") = co[t].name

(* C26: under interleaved turns of one party, once auth_status is          *)
(* authenticated no step of a still-running turn sets it to another value. *)
C26_AuthenticatedStaysUnderInterleaving ==
    [][StatusOf(TurnState) = STATUS_AUTHENTICATED
       => StatusOf(sessions'[TurnParty].state) = STATUS_AUTHENTICATED]_vars

(* The OTP store holds an unexpired, unconsumed code for the client. *)
ValidCode(client_id) ==
    /\ client_id \in DOMAIN otp_store.entries
    /\ otp_store.now - otp_store.entries[client_id].created_at <= OTP_TTL_SECONDS

(* The party has a turn available that issues a new code. *)
CanIssue(p) ==
    \E message \in OtpTexts(p) : \E code \in Codes :
        Called(mock_turn(message, sessions[p].state, otp_store, code).turn.calls,
               "send_otp")

(* C30: whenever a session's auth_status is awaiting_otp, the OTP store    *)
(* holds an unexpired, unconsumed code for the session's auth_client_id,   *)
(* or the party has a turn available that issues a new code.               *)
C30_NeverLockedInAwaitingOtp ==
    \A p \in Party :
        StatusOf(StateNow(p)) = STATUS_AWAITING_OTP
        => \/ ValidCode(DictGet(StateNow(p), AUTH_CLIENT_ID_KEY, ""))
           \/ CanIssue(p)

(* The entry of the client exists and is not older than the validity       *)
(* period.                                                                 *)
Unexpired(client_id) ==
    /\ client_id \in DOMAIN otp_store.entries
    /\ otp_store.now - otp_store.entries[client_id].created_at <= OTP_TTL_SECONDS

(* C31: verify(client_id, otp) returns true exactly when otp equals the    *)
(* code of the most recent generate(client_id), no verify of that code has *)
(* returned true before, and at most OTP_TTL_SECONDS have elapsed since it *)
(* was generated; a successful verify and a verify of an expired entry     *)
(* both remove the entry.                                                  *)
C31_VerifyExactly ==
    [][last'.op = "verify"
       => LET c == last'.client_id IN
          /\ last'.valid
             <=> /\ c \in DOMAIN last.issued
                 /\ last'.code = last.issued[c].code
                 /\ ~last.issued[c].used
                 /\ otp_store.now - last.issued[c].at <= OTP_TTL_SECONDS
          /\ (last'.valid \/ (c \in DOMAIN otp_store.entries /\ ~Unexpired(c)))
             => c \notin DOMAIN otp_store'.entries]_vars

C31_Witness ==
    /\ last.op = "verify"
    /\ ~last.valid
    /\ last.client_id \in DOMAIN last.issued
    /\ last.code = last.issued[last.client_id].code
    /\ last.issued[last.client_id].used
    /\ otp_store.now - last.issued[last.client_id].at <= OTP_TTL_SECONDS

(* C32: verify with a wrong code for an unexpired entry returns false and  *)
(* leaves the store unchanged, and a later verify with the correct code    *)
(* within the validity period still returns true; verify for a client_id   *)
(* with no entry returns false and leaves the store unchanged.             *)
C32_WrongCodeNotConsumed ==
    [][last'.op = "verify"
       => LET c == last'.client_id IN
          /\ (Unexpired(c) /\ last'.code # otp_store.entries[c].code)
             => (~last'.valid /\ otp_store'.entries = otp_store.entries)
          /\ (/\ c \in DOMAIN last.issued
              /\ last.issued[c].missed
              /\ Unexpired(c)
              /\ last'.code = otp_store.entries[c].code)
             => last'.valid
          /\ c \notin DOMAIN otp_store.entries
             => (~last'.valid /\ otp_store'.entries = otp_store.entries)]_vars

C32_Witness ==
    /\ last.op = "verify"
    /\ last.valid
    /\ last.issued[last.client_id].missed
    /\ last.issued[last.client_id].at < otp_store.now

(* The request was answered with HTTP 200. *)
Is200(resp) == resp.kind = "response" /\ resp.status = 200

(* The key of the response body that the method returns. *)
FlagKey(fn) == IF fn = "send_otp" THEN "success" ELSE "valid"

(* C33: ExternalClientAPI maps every collaborator outcome to a value: the  *)
(* lookups return a ClientRecord only on HTTP 200 and None on 404, on any  *)
(* other status and on httpx.HTTPError; send_otp returns true only on HTTP *)
(* 200 with success = true, verify_otp only on HTTP 200 with valid = true, *)
(* and both return false on any other status and on httpx.HTTPError.       *)
C33_EveryOutcomeToValue ==
    \A i \in 1..Len(last) :
        LET c == last[i] IN
        /\ c.ret.tag = "return"
        /\ IsLookup(c.fn)
           => /\ c.ret.val.found => Is200(c.resp)
              /\ ~Is200(c.resp) => c.ret.val = None
        /\ ~IsLookup(c.fn)
           => /\ c.ret.val = TRUE
                 => (Is200(c.resp) /\ DictGet(c.resp.body, FlagKey(c.fn), FALSE) = TRUE)
              /\ ~Is200(c.resp) => c.ret.val = FALSE

====
